---- MODULE Spec2Model ----
(***************************************************************************)
(* A model of the peon-ping Copilot hook (resources/peon-ping-hook.js):    *)
(* one run of main() per hook event, over the config file, the persisted   *)
(* state file and the active pack directory.                               *)
(*                                                                         *)
(* Texts are sequences of whitespace-separated tokens; a regular           *)
(* expression of the source is the token sequence it matches (its \s+ and  *)
(* \b are the token boundaries), tested case-insensitively.  Paths are     *)
(* sequences of segments.  Math.random and the outcome of every file       *)
(* system and process call are inputs of the run.                          *)
(***************************************************************************)
EXTENDS Integers, Sequences, FiniteSets, TLC

----------------------------------------------------------------------------
(* Bounds of the model *)

\* the clock reads 0..MaxTime (seconds)
MaxTime == 2
\* hook runs in one behaviour
MaxRuns == 2

----------------------------------------------------------------------------
(* Sequences *)

Range(s) == {s[i] : i \in 1..Len(s)}

RECURSIVE FilterSeq(_, _)
\* Array.prototype.filter with the test "element is in keep"
FilterSeq(s, keep) ==
  IF s = <<>> THEN <<>>
  ELSE IF Head(s) \in keep THEN <<Head(s)>> \o FilterSeq(Tail(s), keep)
       ELSE FilterSeq(Tail(s), keep)

----------------------------------------------------------------------------
(* Categories and events *)

Categories ==
  {"session.start", "task.acknowledge", "task.complete", "task.error",
   "input.required", "resource.limit", "user.spam"}

NoCategory == ""

KnownEvents ==
  {"SessionStart", "UserPromptSubmit", "PreToolUse", "PostToolUse",
   "SubagentStart", "SubagentStop", "Stop"}

----------------------------------------------------------------------------
(* containsPattern *)

\* the "i" flag of new RegExp(pattern, "i")
Lower(t) ==
  CASE t = "RM" -> "rm"
    [] t = "DROP" -> "drop"
    [] t = "TABLE" -> "table"
    [] t = "ERROR" -> "error"
    [] t = "QUOTA" -> "quota"
    [] OTHER -> t

\* RegExp.prototype.test: the pattern occurs somewhere in the text
RegExpTest(ptoks, text) ==
  \E i \in 0..(Len(text) - Len(ptoks)) :
    \A j \in 1..Len(ptoks) : Lower(ptoks[j]) = Lower(text[i + j])

\* !value: undefined, null, "" (0 and false fall under "absent")
Falsy(value) ==
  \/ value.kind = "absent"
  \/ value.kind = "text" /\ value.toks = <<>>

\* typeof value === "string" ? value : JSON.stringify(value)
Joined(value) ==
  IF value.kind = "text" THEN value.toks
  ELSE <<"{">> \o value.toks \o <<"}">>

\* new RegExp(pattern) throws on a malformed pattern: caught, false
PatternMatches(pattern, joined) ==
  pattern.valid /\ RegExpTest(pattern.toks, joined)

containsPatternBroken(value, patterns) ==
  /\ ~Falsy(value)
  /\ Len(patterns) > 0
  /\ PatternMatches(patterns[1], Joined(value))

containsPattern(value, patterns) ==
  /\ ~Falsy(value)
  /\ \E k \in 1..Len(patterns) : PatternMatches(patterns[k], Joined(value))

Re(toks) == [valid |-> TRUE, toks |-> toks]
BadRe == [valid |-> FALSE, toks |-> <<>>]

RateLimitPatterns ==
  << Re(<<"rate", "limit">>), Re(<<"too", "many", "requests">>), Re(<<"quota">>) >>

ErrorPatterns ==
  << Re(<<"error">>), Re(<<"failed">>), Re(<<"exception">>), Re(<<"traceback">>) >>

DefaultDangerousCommandPatterns ==
  << Re(<<"rm", "-rf", "/">>), Re(<<"drop", "table">>), Re(<<"mkfs">>),
     Re(<<"shutdown">>), Re(<<"reboot">>), Re(<<"format", "c:\\">>) >>

----------------------------------------------------------------------------
(* sanitizeRelativePath *)

\* a path is [str, abs, segs]: str is typeof file === "string", abs a leading
\* slash, segs the segments between slashes (backslashes already count as
\* slashes, empty segments are dropped as path.posix.normalize drops them)
Path(abs, segs) == [str |-> TRUE, abs |-> abs, segs |-> segs]
NotAString == [str |-> FALSE, abs |-> FALSE, segs |-> <<>>]

\* String.prototype.startsWith("..") of a segment
StartsWithDotDot(seg) == seg \in {"..", "..hidden"}

RECURSIVE NormalizeSegs(_, _, _)
\* path.posix.normalize: "." is dropped, ".." removes the segment before it,
\* stays when there is none (relative) and is dropped at the root (absolute)
NormalizeSegs(segs, out, abs) ==
  IF segs = <<>> THEN out
  ELSE LET h == Head(segs)
           t == Tail(segs)
       IN IF h = "." THEN NormalizeSegs(t, out, abs)
          ELSE IF h = ".."
               THEN IF out # <<>> /\ out[Len(out)] # ".."
                    THEN NormalizeSegs(t, SubSeq(out, 1, Len(out) - 1), abs)
                    ELSE IF abs THEN NormalizeSegs(t, out, abs)
                         ELSE NormalizeSegs(t, Append(out, ".."), abs)
               ELSE NormalizeSegs(t, Append(out, h), abs)

\* the normalized path with its leading slashes removed; a relative path that
\* normalizes to nothing is "."
Normalized(p) ==
  LET n == NormalizeSegs(p.segs, <<>>, p.abs)
  IN IF n = <<>> /\ ~p.abs THEN <<".">> ELSE n

\* [ok, segs]: ok = FALSE is the undefined result
sanitizeRelativePath(p) ==
  LET n == Normalized(p)
  IN IF n = <<>> \/ StartsWithDotDot(n[1])
     THEN [ok |-> FALSE, segs |-> <<>>]
     ELSE [ok |-> TRUE, segs |-> n]

----------------------------------------------------------------------------
(* The config file and DEFAULT_CONFIG *)

\* { ...DEFAULT_CONFIG, ...file }[key] used as a condition
Truthy(tri, default) ==
  IF tri = "absent" THEN default ELSE tri \in {"true", "truthy"}

DefaultEnabled == TRUE
DefaultBell == FALSE
DefaultDesktopNotifications == TRUE
DefaultSpamThreshold == 3
DefaultSpamWindowSeconds == 10

DefaultLabels ==
  [c \in Categories |->
     CASE c = "session.start" -> <<"Ready to work?", "Work, work.", "Jobs done.">>
       [] c = "task.acknowledge" -> <<"On it.", "Something need doing?", "I gotcha.">>
       [] c = "task.complete" -> <<"Done and done.", "Job's done.", "All set.">>
       [] c = "task.error" -> <<"That did not work.", "Something broke.", "Need a retry.">>
       [] c = "input.required" -> <<"Need your approval.", "Permission needed.", "Action required.">>
       [] c = "resource.limit" -> <<"Resource limit hit.", "Rate limit reached.", "Quota exceeded.">>
       [] OTHER -> <<"Me busy, leave me alone.", "One at a time.", "Too many prompts.">>]

\* a list-valued key: absent, a list, or a JSON value that is no list
Absent == [kind |-> "absent", list |-> <<>>]
List(l) == [kind |-> "list", list |-> l]
NotAList == [kind |-> "other", list |-> <<>>]

\* safeReadJson(CONFIG_PATH, {}) of a missing or unparseable file is {}
EmptyConfigFile ==
  [enabled |-> "absent", bell |-> "absent", desktopNotifications |-> "absent",
   spamThreshold |-> 0, spamWindowSeconds |-> 0, disabled |-> {},
   labels |-> [c \in Categories |-> Absent],
   dangerousCommandPatterns |-> Absent]

\* main, lines 322-324: the file's keys over DEFAULT_CONFIG.  A number key of
\* 0 stands for an absent or falsy one.  disabled is the set of categories
\* whose flag is false in the file.
LoadConfig(file) ==
  [enabled |-> Truthy(file.enabled, DefaultEnabled),
   bell |-> Truthy(file.bell, DefaultBell),
   desktopNotifications |-> Truthy(file.desktopNotifications, DefaultDesktopNotifications),
   spamThreshold |-> file.spamThreshold,
   spamWindowSeconds |-> file.spamWindowSeconds,
   categories |-> [c \in Categories |-> c \notin file.disabled],
   labels |-> [c \in Categories |->
                 IF file.labels[c].kind = "absent" THEN DefaultLabels[c]
                 ELSE file.labels[c].list],
   dangerousCommandPatterns |-> file.dangerousCommandPatterns]

----------------------------------------------------------------------------
(* The persisted state *)

\* the state file: kind is "missing" (no file, or not JSON), "null", "prim"
\* (a number, string or boolean) or "obj"; a field of an object is "missing"
\* (absent or falsy), well-typed ("map", "seq") or "prim" (a truthy value of
\* another type)
EmptyStateFields ==
  [lplKind |-> "missing", lastPlayedLabel |-> <<>>,
   lpfKind |-> "missing", lastPlayedFile |-> <<>>,
   ptsKind |-> "missing", promptTimestamps |-> <<>>]

StateFile(kind, fields) ==
  [kind |-> kind,
   lplKind |-> fields.lplKind, lastPlayedLabel |-> fields.lastPlayedLabel,
   lpfKind |-> fields.lpfKind, lastPlayedFile |-> fields.lastPlayedFile,
   ptsKind |-> fields.ptsKind, promptTimestamps |-> fields.promptTimestamps]

NoStateFile == StateFile("missing", EmptyStateFields)

\* a map from categories is a function on the categories that have a key
EmptyMap == <<>>
\* map[key] || default
Lookup(map, key, default) == IF key \in DOMAIN map THEN map[key] ELSE default
Store(map, key, value) ==
  [k \in (DOMAIN map) \cup {key} |-> IF k = key THEN value ELSE map[k]]

\* main, lines 326-334: [threw, state].  Reading a property of null throws;
\* an assignment to a property of a primitive is dropped (the script is not
\* in strict mode), so its fields stay undefined.
LoadState(file) ==
  IF file.kind = "null" THEN [threw |-> TRUE, state |-> NoStateFile]
  ELSE IF file.kind = "missing"
  THEN [threw |-> FALSE,
        state |-> [kind |-> "obj",
                   lplKind |-> "map", lastPlayedLabel |-> EmptyMap,
                   lpfKind |-> "map", lastPlayedFile |-> EmptyMap,
                   ptsKind |-> "seq", promptTimestamps |-> <<>>]]
  ELSE IF file.kind = "prim"
  THEN [threw |-> FALSE,
        state |-> [kind |-> "prim",
                   lplKind |-> "undef", lastPlayedLabel |-> EmptyMap,
                   lpfKind |-> "undef", lastPlayedFile |-> EmptyMap,
                   ptsKind |-> "undef", promptTimestamps |-> <<>>]]
  ELSE [threw |-> FALSE,
        state |-> [kind |-> "obj",
                   lplKind |-> IF file.lplKind = "missing" THEN "map" ELSE file.lplKind,
                   lastPlayedLabel |-> IF file.lplKind = "map" THEN file.lastPlayedLabel ELSE EmptyMap,
                   lpfKind |-> IF file.lpfKind = "missing" THEN "map" ELSE file.lpfKind,
                   lastPlayedFile |-> IF file.lpfKind = "map" THEN file.lastPlayedFile ELSE EmptyMap,
                   ptsKind |-> IF file.ptsKind = "missing" THEN "seq" ELSE file.ptsKind,
                   promptTimestamps |-> IF file.ptsKind = "seq" THEN file.promptTimestamps ELSE <<>>]]

\* JSON.stringify(state): what safeWriteJson puts in the file
Serialize(state) ==
  IF state.kind = "prim" THEN StateFile("prim", EmptyStateFields)
  ELSE [kind |-> "obj",
        lplKind |-> state.lplKind, lastPlayedLabel |-> state.lastPlayedLabel,
        lpfKind |-> state.lpfKind, lastPlayedFile |-> state.lastPlayedFile,
        ptsKind |-> state.ptsKind, promptTimestamps |-> state.promptTimestamps]

----------------------------------------------------------------------------
(* pickLabel *)

\* the values of Math.floor(Math.random() * n)
Draws(n) == IF n = 0 THEN {0} ELSE 0..(n - 1)

\* the element of an array at Math.floor(Math.random() * n), r being the draw
RandomIndex(r, n) == (r % n) + 1

\* (config.labels && config.labels[category]) || [], [] also standing for a
\* value that is no array
LabelsOf(category, config) == config.labels[category]

\* state.lastPlayedLabel[category] || ""
LastLabel(category, state) ==
  IF state.lplKind = "map" THEN Lookup(state.lastPlayedLabel, category, "") ELSE ""

LabelCandidatesKeepLast(labels, lastLabel) == labels

\* labels.length <= 1 ? labels : labels.filter((label) => label !== last)
LabelCandidates(labels, lastLabel) ==
  IF Len(labels) <= 1 THEN labels
  ELSE FilterSeq(labels, Range(labels) \ {lastLabel})

NextLabelNoFallback(labels, candidates, r) ==
  IF candidates = <<>> THEN "" ELSE candidates[RandomIndex(r, Len(candidates))]

\* candidates[i] || labels[0]: an empty pool and an empty label both fall
\* back to the first label
NextLabel(labels, candidates, r) ==
  IF candidates = <<>> THEN labels[1]
  ELSE LET c == candidates[RandomIndex(r, Len(candidates))]
       IN IF c = "" THEN labels[1] ELSE c

\* [threw, label, picked, state]: picked says that a label of the list was
\* selected and recorded
pickLabel(category, config, state, r) ==
  LET labels == LabelsOf(category, config)
  IN IF labels = <<>>
     THEN [threw |-> FALSE, label |-> category, picked |-> FALSE, state |-> state]
     ELSE IF state.lplKind = "undef"
     THEN [threw |-> TRUE, label |-> "", picked |-> FALSE, state |-> state]
     ELSE
       LET next == NextLabel(labels, LabelCandidates(labels, LastLabel(category, state)), r)
       IN [threw |-> FALSE, label |-> next, picked |-> TRUE,
           state |-> IF state.lplKind = "map"
                     THEN [state EXCEPT !.lastPlayedLabel = Store(@, category, next)]
                     ELSE state]

----------------------------------------------------------------------------
(* checkSpam *)

\* Number(config.spamThreshold || 3), Number(config.spamWindowSeconds || 10)
Threshold(config) ==
  IF config.spamThreshold = 0 THEN DefaultSpamThreshold ELSE config.spamThreshold
WindowSeconds(config) ==
  IF config.spamWindowSeconds = 0 THEN DefaultSpamWindowSeconds
  ELSE config.spamWindowSeconds

RetainedStrict(stamps, t, windowSeconds) ==
  FilterSeq(stamps, {x \in Range(stamps) : x > t - windowSeconds})

\* filter((stamp) => stamp >= cutoff)
Retained(stamps, t, windowSeconds) ==
  FilterSeq(stamps, {x \in Range(stamps) : x >= t - windowSeconds})

checkSpamKeepAll(state, config, t) ==
  IF state.ptsKind # "seq"
  THEN [threw |-> TRUE, spam |-> FALSE, state |-> state]
  ELSE LET stamps == Append(state.promptTimestamps, t)
       IN [threw |-> FALSE,
           spam |-> Len(Retained(stamps, t, WindowSeconds(config))) >= Threshold(config),
           state |-> [state EXCEPT !.promptTimestamps = stamps]]

checkSpamNoPush(state, config, t) ==
  IF state.ptsKind # "seq"
  THEN [threw |-> TRUE, spam |-> FALSE, state |-> state]
  ELSE LET stamps == Retained(state.promptTimestamps, t, WindowSeconds(config))
       IN [threw |-> FALSE,
           spam |-> Len(stamps) + 1 >= Threshold(config),
           state |-> [state EXCEPT !.promptTimestamps = stamps]]

\* [threw, spam, state]: a promptTimestamps that is no array has no filter,
\* an undefined one no push
checkSpam(state, config, t) ==
  IF state.ptsKind # "seq"
  THEN [threw |-> TRUE, spam |-> FALSE, state |-> state]
  ELSE LET stamps == Append(Retained(state.promptTimestamps, t, WindowSeconds(config)), t)
       IN [threw |-> FALSE,
           spam |-> Len(stamps) >= Threshold(config),
           state |-> [state EXCEPT !.promptTimestamps = stamps]]

----------------------------------------------------------------------------
(* getPackContext, pickSound, playSound *)

\* a manifest file is "missing", "garbage" (not JSON) or "json"; sounds maps a
\* category to its entries [file, label]
NoManifest == [kind |-> "missing", sounds |-> [c \in Categories |-> <<>>]]
GarbageManifest == [kind |-> "garbage", sounds |-> [c \in Categories |-> <<>>]]
Manifest(sounds) == [kind |-> "json", sounds |-> [c \in Categories |-> sounds]]

getPackContextSecondaryFirst(dir) ==
  IF dir.manifest.kind = "json" THEN [found |-> TRUE, manifest |-> dir.manifest]
  ELSE IF dir.openpeon.kind = "json" THEN [found |-> TRUE, manifest |-> dir.openpeon]
  ELSE [found |-> FALSE, manifest |-> NoManifest]

\* the candidates in order: openpeon.json, then manifest.json; the first that
\* exists and parses.  [found, manifest]
getPackContext(dir) ==
  IF dir.openpeon.kind = "json" THEN [found |-> TRUE, manifest |-> dir.openpeon]
  ELSE IF dir.manifest.kind = "json" THEN [found |-> TRUE, manifest |-> dir.manifest]
  ELSE [found |-> FALSE, manifest |-> NoManifest]

RECURSIVE SoundCandidates(_)
\* the entries whose file is a string that sanitizeRelativePath accepts
SoundCandidates(sounds) ==
  IF sounds = <<>> THEN <<>>
  ELSE LET s == Head(sounds)
           rel == sanitizeRelativePath(s.file)
       IN IF s.file.str /\ rel.ok
          THEN <<[file |-> rel.segs, label |-> s.label]>> \o SoundCandidates(Tail(sounds))
          ELSE SoundCandidates(Tail(sounds))

\* state.lastPlayedFile[category] || "", the empty path standing for ""
LastFile(category, state) ==
  IF state.lpfKind = "map" THEN Lookup(state.lastPlayedFile, category, <<>>) ELSE <<>>

SoundPoolKeepLast(candidates, lastFile) == candidates

\* candidates.length <= 1 ? candidates
\*   : candidates.filter((entry) => entry.file !== last)
SoundPool(candidates, lastFile) ==
  IF Len(candidates) <= 1 THEN candidates
  ELSE FilterSeq(candidates, {e \in Range(candidates) : e.file # lastFile})

NoSound == [file |-> <<>>, label |-> ""]

\* [threw, found, selected, state]
pickSound(category, manifest, state, r) ==
  LET candidates == SoundCandidates(manifest.sounds[category])
  IN IF candidates = <<>>
     THEN [threw |-> FALSE, found |-> FALSE, selected |-> NoSound, state |-> state]
     ELSE IF state.lpfKind = "undef"
     THEN [threw |-> TRUE, found |-> FALSE, selected |-> NoSound, state |-> state]
     ELSE
       LET pool == SoundPool(candidates, LastFile(category, state))
           selected == IF pool = <<>> THEN candidates[1]
                       ELSE pool[RandomIndex(r, Len(pool))]
       IN [threw |-> FALSE, found |-> TRUE, selected |-> selected,
           state |-> IF state.lpfKind = "map"
                     THEN [state EXCEPT !.lastPlayedFile = Store(@, category, selected.file)]
                     ELSE state]

\* fs.existsSync(path.join(packDir, ...file.split("/"))): "." is the pack
\* directory itself
SoundFileExists(dir, file) == file = <<".">> \/ file \in dir.files

\* the process environment of a run: platform, whether one of the linux
\* players (pw-play, paplay, ffplay, mpv, aplay) is installed, whether
\* child_process.spawn returns (runDetached gives true) or throws (false),
\* whether the state file can be written
Env(platform, linuxPlayer, spawnOk, writeOk) ==
  [platform |-> platform, linuxPlayer |-> linuxPlayer, spawnOk |-> spawnOk,
   writeOk |-> writeOk]

\* [spawned, ok]: spawned says a player was launched, ok is the result
playSound(exists, env) ==
  IF ~exists THEN [spawned |-> FALSE, ok |-> FALSE]
  ELSE IF env.platform = "darwin" THEN [spawned |-> TRUE, ok |-> env.spawnOk]
  ELSE IF env.platform = "linux"
       THEN IF env.linuxPlayer THEN [spawned |-> TRUE, ok |-> env.spawnOk]
            ELSE [spawned |-> FALSE, ok |-> FALSE]
  ELSE IF env.platform = "win32" THEN [spawned |-> TRUE, ok |-> env.spawnOk]
  ELSE [spawned |-> FALSE, ok |-> FALSE]

\* sendDesktopNotification launches a command on darwin, linux and win32
NotificationSpawned(env) == env.platform \in {"darwin", "linux", "win32"}

----------------------------------------------------------------------------
(* main *)

VARIABLES
  cfgFile,     \* peon-ping.config.json
  stateFile,   \* .peon-ping-state.json
  pack,        \* the active pack directory: its two manifests and its files
  now,         \* the latest reading of Date.now() / 1000
  runs,        \* hook runs so far
  prompts,     \* history: the times of the UserPromptSubmit runs
  chosen,      \* history: per category, the label and the file selected last
  last,        \* what the latest run read, did and wrote
  call,        \* the latest call of a function taken alone: arguments, result
  installed,   \* which files of .github/hooks exist: registration, script, config;
               \* edited: those of the first two whose content is not the one
               \* installHooks writes
  procs        \* hook processes that run side by side: what each has read

vars == <<cfgFile, stateFile, pack, now, runs, prompts, chosen, last, call, installed, procs>>

\* hookInput.hookEventName || hookInput.hook_event_name || ""
EventName(hookInput) ==
  IF hookInput.hookEventName # "" THEN hookInput.hookEventName
  ELSE hookInput.hook_event_name

\* createOutput, and the hookSpecificOutput of lines 340-344 and 375-380
createOutput ==
  [continue |-> TRUE, permissionDecision |-> "none", additionalContext |-> FALSE]
AllowOutput ==
  [continue |-> TRUE, permissionDecision |-> "allow", additionalContext |-> FALSE]
AskOutput ==
  [continue |-> TRUE, permissionDecision |-> "ask", additionalContext |-> TRUE]

\* lines 339-345
BaseOutput(eventName) ==
  IF eventName = "PreToolUse" THEN AllowOutput ELSE createOutput

ActivePatternsDefaultOnly(config) == DefaultDangerousCommandPatterns

\* lines 368-370
ActivePatterns(config) ==
  IF config.dangerousCommandPatterns.kind = "list"
  THEN config.dangerousCommandPatterns.list
  ELSE DefaultDangerousCommandPatterns

ClassifyResponseErrorFirst(responsePayload) ==
  IF containsPattern(responsePayload, ErrorPatterns) THEN "task.error"
  ELSE IF containsPattern(responsePayload, RateLimitPatterns) THEN "resource.limit"
  ELSE NoCategory

\* lines 360-366
ClassifyResponse(responsePayload) ==
  IF containsPattern(responsePayload, RateLimitPatterns) THEN "resource.limit"
  ELSE IF containsPattern(responsePayload, ErrorPatterns) THEN "task.error"
  ELSE NoCategory

SubagentStartCategoryComplete == "task.complete"

\* line 357
SubagentStartCategory == "task.acknowledge"

\* lines 347-382: [threw, category, extraMessage, output, state]
Classify(eventName, hookInput, config, state, t) ==
  LET plain(c) == [threw |-> FALSE, category |-> c, extraMessage |-> FALSE,
                   output |-> BaseOutput(eventName), state |-> state]
  IN CASE eventName = "SessionStart" -> plain("session.start")
       [] eventName = "UserPromptSubmit" ->
            LET spam == checkSpam(state, config, t)
            IN [threw |-> spam.threw,
                category |-> IF spam.spam THEN "user.spam" ELSE "task.acknowledge",
                extraMessage |-> FALSE,
                output |-> BaseOutput(eventName),
                state |-> spam.state]
       [] eventName = "Stop" -> plain("task.complete")
       [] eventName = "SubagentStart" -> plain(SubagentStartCategory)
       [] eventName = "SubagentStop" -> plain("task.complete")
       [] eventName = "PostToolUse" -> plain(ClassifyResponse(hookInput.tool_response))
       [] eventName = "PreToolUse" ->
            IF containsPattern(hookInput.tool_input, ActivePatterns(config))
            THEN [threw |-> FALSE, category |-> "input.required",
                  extraMessage |-> TRUE, output |-> AskOutput, state |-> state]
            ELSE plain(NoCategory)
       [] OTHER -> plain(NoCategory)

ActiveIgnoringFlags(config, category) ==
  config.enabled /\ category # NoCategory

\* line 384
Active(config, category) ==
  config.enabled /\ category # NoCategory /\ config.categories[category]

\* a run that skips the body of the if of line 384
NoEffects ==
  [threw |-> FALSE,
   packFound |-> FALSE, labelPicked |-> FALSE, label |-> "",
   soundPicked |-> FALSE, file |-> <<>>, soundLabel |-> "",
   audioSpawned |-> FALSE, playedAudio |-> FALSE, bell |-> FALSE,
   notified |-> FALSE, notificationSpawned |-> FALSE,
   notifications |-> <<>>]

BellWheneverOn(playedAudio, config) == config.bell

\* lines 402-404: if (!playedAudio && config.bell) ringBell()
BellRung(playedAudio, config) == ~playedAudio /\ config.bell

\* line 374, and the title of line 408
ExtraMessageText == "Potentially destructive tool input detected."
NotificationTitle == "Peon Ping"

NotificationMessageFallbackOnly(lab, snd) == lab.label

\* lines 389 and 397-399: the fallback label, or the label of the picked
\* sound when it has one
NotificationMessage(lab, snd) ==
  IF snd.found /\ snd.selected.label # "" THEN snd.selected.label ELSE lab.label

\* line 407: a text is the sequence of the parts that single spaces separate
\* extraMessage ? `${notificationMessage} ${extraMessage}` : notificationMessage
ComposeMessage(notificationMessage, extraMessage) ==
  IF extraMessage THEN <<notificationMessage, ExtraMessageText>>
  ELSE <<notificationMessage>>

\* lines 406-409: the calls of sendDesktopNotification
Notifications(config, lab, snd, extraMessage) ==
  IF config.desktopNotifications
  THEN << [title |-> NotificationTitle,
           message |-> ComposeMessage(NotificationMessage(lab, snd), extraMessage)] >>
  ELSE <<>>

\* lines 388-409: what the body of the if does once the label (lab) and the
\* sound (snd) are picked
Effects(extraMessage, config, dir, packContext, lab, snd, env) ==
  LET play == IF snd.found
              THEN playSound(SoundFileExists(dir, snd.selected.file), env)
              ELSE [spawned |-> FALSE, ok |-> FALSE]
  IN IF lab.threw \/ snd.threw
     THEN [NoEffects EXCEPT !.threw = TRUE, !.packFound = packContext.found]
     ELSE [threw |-> FALSE,
           packFound |-> packContext.found,
           labelPicked |-> lab.picked, label |-> lab.label,
           soundPicked |-> snd.found, file |-> snd.selected.file,
           soundLabel |-> snd.selected.label,
           audioSpawned |-> play.spawned, playedAudio |-> play.ok,
           bell |-> BellRung(play.ok, config),
           notified |-> config.desktopNotifications,
           notificationSpawned |-> config.desktopNotifications /\ NotificationSpawned(env),
           notifications |-> Notifications(config, lab, snd, extraMessage)]

EmittedNoCatch(threw, output) == IF threw THEN <<>> ELSE <<output>>

\* lines 413-418: the record main writes, or the one its catch handler writes
Emitted(threw, output) == IF threw THEN <<createOutput>> ELSE <<output>>

StateWriteInActiveBranch(threw, active) == ~threw /\ active

\* line 412 runs when nothing before it threw
StateWriteAttempted(threw, active) == ~threw

safeWriteJsonNoCatch(attempted, writeOk) ==
  [wrote |-> attempted /\ writeOk, threw |-> attempted /\ ~writeOk]

\* lines 54-59: the file is written when the write succeeds; a write that
\* fails is caught and throws nothing into main
safeWriteJson(attempted, writeOk) ==
  [wrote |-> attempted /\ writeOk, threw |-> FALSE]

NothingChosen ==
  [hasLabel |-> FALSE, label |-> "", hasFile |-> FALSE, file |-> <<>>]

\* lines 412-418, and the history of the run
Finish(hookInput, eventName, cls, active, eff, state, env, t) ==
  LET failed == cls.threw \/ eff.threw
      attempted == StateWriteAttempted(failed, active)
      written == safeWriteJson(attempted, env.writeOk)
      threw == failed \/ written.threw
      cat == cls.category
      before == IF cat \in DOMAIN chosen THEN chosen[cat] ELSE NothingChosen
      after == [hasLabel |-> before.hasLabel \/ eff.labelPicked,
                label |-> IF eff.labelPicked THEN eff.label ELSE before.label,
                hasFile |-> before.hasFile \/ eff.soundPicked,
                file |-> IF eff.soundPicked THEN eff.file ELSE before.file]
  IN /\ runs' = runs + 1
     /\ now' = t
     /\ stateFile' = IF written.wrote THEN Serialize(state) ELSE stateFile
     /\ prompts' = IF eventName = "UserPromptSubmit" THEN Append(prompts, t)
                   ELSE prompts
     /\ chosen' = IF eff.labelPicked \/ eff.soundPicked
                  THEN Store(chosen, cat, after) ELSE chosen
     /\ last' = [ran |-> TRUE,
                 eventName |-> eventName,
                 tool_input |-> hookInput.tool_input,
                 tool_response |-> hookInput.tool_response,
                 threw |-> threw,
                 category |-> IF cls.threw THEN NoCategory ELSE cat,
                 active |-> active,
                 records |-> Emitted(threw, cls.output),
                 stateWrite |-> IF ~attempted THEN "none"
                                ELSE IF env.writeOk THEN "ok" ELSE "failed",
                 before |-> before,
                 effects |-> eff]
     /\ UNCHANGED <<cfgFile, pack, call, installed>>

\* an environment that differs from another one of the model in what
\* playSound reads after existsSync, and in nothing else
PlayerOnly(env) == env.platform \in {"darwin", "win32"} \/ ~env.linuxPlayer

\* one run of the hook on hookInput, from the state file as the run read it
\* (snapshot); t is the clock (read by checkSpam alone),
\* envs the process environments the run may find itself in.  The draws of
\* Math.random range over the pool they index; a run that launches no player
\* and no notification is taken in the environments that differ for it.
MainFrom(hookInput, envs, t, snapshot) ==
  \E config \in {LoadConfig(cfgFile)}, loaded \in {snapshot} :
  \E eventName \in {IF hookInput.kind = "null" THEN "" ELSE EventName(hookInput)} :
  \E cls \in {IF loaded.threw \/ hookInput.kind = "null"
              THEN [threw |-> TRUE, category |-> NoCategory, extraMessage |-> FALSE,
                    output |-> createOutput, state |-> loaded.state]
              ELSE Classify(eventName, hookInput, config, loaded.state, t)} :
    IF cls.threw \/ ~Active(config, cls.category)
    THEN \E env \in {e \in envs : ~PlayerOnly(e) /\ NotificationSpawned(e)} :
           Finish(hookInput, eventName, cls, FALSE, NoEffects, cls.state, env, t)
    ELSE
      \E packContext \in {getPackContext(pack)} :
      \E rl \in Draws(Len(LabelCandidates(LabelsOf(cls.category, config),
                                          LastLabel(cls.category, cls.state)))) :
      \E lab \in {pickLabel(cls.category, config, cls.state, rl)} :
      \E rs \in IF packContext.found /\ ~lab.threw
                THEN Draws(Len(SoundPool(
                       SoundCandidates(packContext.manifest.sounds[cls.category]),
                       LastFile(cls.category, lab.state))))
                ELSE {0} :
      \E snd \in {IF packContext.found /\ ~lab.threw
                  THEN pickSound(cls.category, packContext.manifest, lab.state, rs)
                  ELSE [threw |-> FALSE, found |-> FALSE, selected |-> NoSound,
                        state |-> lab.state]} :
      \E env \in IF snd.found /\ SoundFileExists(pack, snd.selected.file)
                 THEN envs ELSE {e \in envs : ~PlayerOnly(e)} :
        Finish(hookInput, eventName, cls, TRUE,
               Effects(cls.extraMessage, config, pack, packContext, lab, snd, env),
               snd.state, env, t)

\* a run of the hook while no other run is under way
Main(hookInput, envs, t) ==
  /\ MainFrom(hookInput, envs, t, LoadState(stateFile))
  /\ UNCHANGED procs

----------------------------------------------------------------------------
(* The inputs of a run *)

NoPayload == [kind |-> "absent", toks |-> <<>>]
Text(toks) == [kind |-> "text", toks |-> toks]
Object(toks) == [kind |-> "object", toks |-> toks]

\* the event read from stdin, its name under either key spelling; an empty
\* or unparseable stdin is the event with every key absent
HookInput(name, spelling, toolInput, toolResponse) ==
  [kind |-> "object",
   hookEventName |-> IF spelling = "hookEventName" THEN name ELSE "",
   hook_event_name |-> IF spelling = "hook_event_name" THEN name ELSE "",
   tool_input |-> toolInput, tool_response |-> toolResponse]

Spellings == {"hookEventName", "hook_event_name"}

\* JSON.parse of the text "null"
NullInput ==
  [kind |-> "null", hookEventName |-> "", hook_event_name |-> "",
   tool_input |-> NoPayload, tool_response |-> NoPayload]

ToolInputs ==
  {NoPayload, Text(<<>>), Text(<<"ls", "-la">>), Text(<<"rm", "-rf", "/">>),
   Text(<<"DROP", "TABLE", "users">>), Object(<<>>),
   Object(<<"command", ":", "RM", "-rf", "/">>)}

ToolResponses ==
  {NoPayload, Text(<<"ok">>), Text(<<"rate", "limit", "exceeded">>),
   Text(<<"error", ":", "rate", "limit", "exceeded">>), Text(<<"build", "failed">>),
   Object(<<"ERROR", ":", "QUOTA">>), Object(<<"exit", ":", "0">>)}

UnknownEvents == {"Notification", ""}

\* environments in which the state file can be written
Envs ==
  {Env("linux", TRUE, TRUE, TRUE), Env("linux", FALSE, TRUE, TRUE),
   Env("darwin", FALSE, FALSE, TRUE), Env("other", TRUE, TRUE, TRUE)}

\* and environments in which it cannot
AnyEnvs ==
  {Env("linux", TRUE, TRUE, TRUE), Env("linux", TRUE, TRUE, FALSE),
   Env("win32", FALSE, FALSE, FALSE), Env("other", TRUE, TRUE, TRUE)}

----------------------------------------------------------------------------
(* The files the hook finds *)

WithLabels(file, l) == [file EXCEPT !.labels = [c \in Categories |-> l]]

\* config files whose keys have the documented types
TypedConfigs ==
  {EmptyConfigFile,
   [EmptyConfigFile EXCEPT !.enabled = "true", !.bell = "true"],
   [EmptyConfigFile EXCEPT !.enabled = "false", !.bell = "true"],
   [EmptyConfigFile EXCEPT !.bell = "true", !.desktopNotifications = "false"],
   [EmptyConfigFile EXCEPT !.disabled = {"input.required", "task.complete"}],
   [EmptyConfigFile EXCEPT !.disabled = {"task.acknowledge", "resource.limit"},
                           !.bell = "true"]}
  \cup {[EmptyConfigFile EXCEPT !.spamThreshold = t, !.spamWindowSeconds = w] :
          t \in 1..2, w \in 1..2}
  \cup {WithLabels(EmptyConfigFile, l) :
          l \in {List(<<>>), List(<<"a">>), List(<<"a", "b">>), List(<<"a", "">>),
                 List(<<"a", "a", "b">>), NotAList}}
  \cup {[EmptyConfigFile EXCEPT !.dangerousCommandPatterns = l] :
          l \in {List(<<>>), List(<<Re(<<"ls">>)>>),
                 List(<<BadRe, Re(<<"ls">>), Re(<<"mkfs">>)>>), NotAList}}

\* config files with keys of another type
UntypedConfigs ==
  {[EmptyConfigFile EXCEPT !.enabled = "truthy", !.bell = "truthy"],
   [EmptyConfigFile EXCEPT !.enabled = "falsy", !.desktopNotifications = "falsy"]}

Sound(file, label) == [file |-> file, label |-> label]

NoPack == [openpeon |-> NoManifest, manifest |-> NoManifest, files |-> {}]

TwoSounds ==
  << Sound(Path(FALSE, <<"sounds", "a.wav">>), "Work, work."),
     Sound(Path(FALSE, <<"sounds", "b.wav">>), "") >>

\* the pack as syncPack downloads it
DefaultPack ==
  [openpeon |-> Manifest(TwoSounds), manifest |-> NoManifest,
   files |-> {<<"sounds", "a.wav">>, <<"sounds", "b.wav">>}]

Packs ==
  {NoPack, DefaultPack,
   [openpeon |-> GarbageManifest, manifest |-> Manifest(TwoSounds),
    files |-> {<<"sounds", "a.wav">>}],
   [openpeon |-> Manifest(<<Sound(Path(FALSE, <<"a.wav">>), "")>>),
    manifest |-> Manifest(TwoSounds), files |-> {<<"a.wav">>}],
   [openpeon |-> Manifest(<< Sound(Path(FALSE, <<"a.wav">>), "A"),
                             Sound(Path(FALSE, <<".", "a.wav">>), "A again"),
                             Sound(Path(FALSE, <<"..", "..", "etc", "passwd">>), "x"),
                             Sound(NotAString, "y") >>),
    manifest |-> NoManifest, files |-> {<<"a.wav">>}],
   [openpeon |-> Manifest(<< Sound(Path(FALSE, <<"sounds", "..", "a.wav">>), ""),
                             Sound(Path(TRUE, <<"etc", "passwd">>), "abs"),
                             Sound(Path(FALSE, <<"..hidden">>), "h") >>),
    manifest |-> GarbageManifest, files |-> {<<"a.wav">>}],
   [openpeon |-> Manifest(<<>>), manifest |-> Manifest(TwoSounds), files |-> {}],
   [openpeon |-> Manifest(<< Sound(Path(FALSE, <<"sounds", "..">>), "dir"),
                             Sound(Path(FALSE, <<"..", "a.wav">>), "up") >>),
    manifest |-> NoManifest, files |-> {<<"sounds", "a.wav">>}],
   [openpeon |-> NoManifest, manifest |-> Manifest(TwoSounds),
    files |-> {<<"sounds", "b.wav">>}],
   [openpeon |-> GarbageManifest, manifest |-> GarbageManifest, files |-> {}],
   [openpeon |-> GarbageManifest, manifest |-> NoManifest,
    files |-> {<<"sounds", "a.wav">>}]}

\* state files the hook did not write
ForeignStateFiles ==
  {StateFile("null", EmptyStateFields), StateFile("prim", EmptyStateFields),
   StateFile("obj", EmptyStateFields),
   StateFile("obj", [EmptyStateFields EXCEPT !.lplKind = "prim"]),
   StateFile("obj", [EmptyStateFields EXCEPT !.lpfKind = "prim"]),
   StateFile("obj", [EmptyStateFields EXCEPT !.ptsKind = "prim"])}

----------------------------------------------------------------------------
(* The specifications *)

NoRun ==
  [ran |-> FALSE, eventName |-> "", tool_input |-> NoPayload,
   tool_response |-> NoPayload, threw |-> FALSE, category |-> NoCategory,
   active |-> FALSE, records |-> <<>>, stateWrite |-> "none",
   before |-> NothingChosen, effects |-> NoEffects]

\* hook processes the host may have started at the same time
Procs == {1, 2}

Idle == [phase |-> "idle", loaded |-> LoadState(NoStateFile)]

NoCall == [fn |-> "", arg |-> <<>>, result |-> FALSE]

InitHistory ==
  /\ now = 0
  /\ runs = 0
  /\ prompts = <<>>
  /\ chosen = EmptyMap
  /\ last = NoRun
  /\ call = NoCall
  /\ procs = [p \in Procs |-> Idle]

\* the three files the Install command writes are in place
AllInstalled == [hooksFile |-> TRUE, script |-> TRUE, config |-> TRUE, edited |-> {}]

\* after installation: a config file the user may have edited, a pack
\* directory in any condition, no state file yet
Init ==
  /\ \/ cfgFile \in TypedConfigs /\ pack = NoPack
     \/ cfgFile = EmptyConfigFile /\ pack \in Packs
     \/ cfgFile = [EmptyConfigFile EXCEPT !.bell = "true"] /\ pack = DefaultPack
  /\ stateFile = NoStateFile
  /\ InitHistory
  /\ installed = AllInstalled

\* a run on an event that carries no payload
Event(name) ==
  /\ runs < MaxRuns
  /\ \E spelling \in Spellings :
       Main(HookInput(name, spelling, NoPayload, NoPayload), Envs, now)

SessionStart == Event("SessionStart")

UserPromptSubmit ==
  /\ runs < MaxRuns
  /\ \E t \in now..MaxTime :
       Main(HookInput("UserPromptSubmit", "hookEventName", NoPayload, NoPayload), Envs, t)

Stop == Event("Stop")

SubagentStart == Event("SubagentStart")

SubagentStop == Event("SubagentStop")

PostToolUse ==
  /\ runs < MaxRuns
  /\ \E response \in ToolResponses :
       Main(HookInput("PostToolUse", "hook_event_name", NoPayload, response), Envs, now)

PreToolUse ==
  /\ runs < MaxRuns
  /\ \E input \in ToolInputs :
       Main(HookInput("PreToolUse", "hookEventName", input, NoPayload), Envs, now)

OtherEvent == \E name \in UnknownEvents : Event(name)

Next ==
  \/ SessionStart
  \/ UserPromptSubmit
  \/ Stop
  \/ SubagentStart
  \/ SubagentStop
  \/ PostToolUse
  \/ PreToolUse
  \/ OtherEvent

Spec == Init /\ [][Next]_vars

\* the hook in a hostile setting: any stdin, config and state files of any
\* content, a state file that cannot be written
InitAny ==
  /\ cfgFile \in UntypedConfigs \cup {EmptyConfigFile}
  /\ pack = DefaultPack
  /\ stateFile \in ForeignStateFiles \cup {NoStateFile}
  /\ InitHistory
  /\ installed = AllInstalled

AnyInputs ==
  {NullInput}
  \cup {HookInput(e, "hookEventName", NoPayload, NoPayload) :
          e \in (KnownEvents \cup UnknownEvents) \ {"PreToolUse", "PostToolUse"}}
  \cup {HookInput("PreToolUse", "hookEventName", p, NoPayload) : p \in ToolInputs}
  \cup {HookInput("PostToolUse", "hook_event_name", NoPayload, p) : p \in ToolResponses}

AnyRun ==
  /\ runs < MaxRuns
  /\ \E hookInput \in AnyInputs :
     \E t \in IF EventName(hookInput) = "UserPromptSubmit" THEN now..MaxTime ELSE {now} :
       Main(hookInput, AnyEnvs, t)

NextAny == AnyRun

SpecAny == InitAny /\ [][NextAny]_vars

\* the hook with files in order and side effects that may fail: with and
\* without a player, with a spawn and a state write that succeed or fail
FaultEnvs ==
  {Env(e[1], e[2], e[3], writeOk) :
     e \in {<<"linux", TRUE, TRUE>>, <<"linux", FALSE, TRUE>>,
             <<"darwin", FALSE, TRUE>>, <<"darwin", FALSE, FALSE>>,
             <<"other", TRUE, TRUE>>},
     writeOk \in BOOLEAN}

InitFaults ==
  /\ cfgFile \in {EmptyConfigFile,
                  [EmptyConfigFile EXCEPT !.bell = "true"],
                  [EmptyConfigFile EXCEPT !.bell = "true",
                                          !.desktopNotifications = "false"],
                  [EmptyConfigFile EXCEPT !.dangerousCommandPatterns =
                                            List(<<Re(<<"ls">>)>>)]}
  /\ pack \in {NoPack, DefaultPack,
               [DefaultPack EXCEPT !.files = {<<"sounds", "a.wav">>}]}
  /\ stateFile = NoStateFile
  /\ InitHistory
  /\ installed = AllInstalled

FaultInputs ==
  {HookInput(e, "hookEventName", NoPayload, NoPayload) :
     e \in {"SessionStart", "UserPromptSubmit", "Notification"}}
  \cup {HookInput("PreToolUse", "hookEventName", p, NoPayload) : p \in ToolInputs}

FaultyRun ==
  /\ runs < MaxRuns
  /\ \E hookInput \in FaultInputs : Main(hookInput, FaultEnvs, now)

NextFaults == FaultyRun

SpecFaults == InitFaults /\ [][NextFaults]_vars

\* the functions of the hook taken alone, on arguments of every shape; they
\* keep nothing between calls, so one call from the start is every call
InitCalls ==
  /\ cfgFile = EmptyConfigFile
  /\ pack = NoPack
  /\ stateFile = NoStateFile
  /\ InitHistory
  /\ installed = AllInstalled

Values == ToolInputs \cup ToolResponses

PatternLists ==
  {<<>>, <<BadRe>>, <<BadRe, BadRe>>, <<Re(<<"ls">>)>>, <<BadRe, Re(<<"ls">>)>>,
   <<Re(<<"mkfs">>), BadRe, Re(<<"rm">>)>>, <<Re(<<"{">>)>>,
   DefaultDangerousCommandPatterns, RateLimitPatterns, ErrorPatterns}

CallContainsPattern ==
  /\ call = NoCall
  /\ \E value \in Values, patterns \in PatternLists :
       call' = [fn |-> "containsPattern",
                arg |-> [value |-> value, patterns |-> patterns],
                result |-> containsPattern(value, patterns)]
  /\ UNCHANGED <<cfgFile, stateFile, pack, now, runs, prompts, chosen, last, installed, procs>>

\* the length of the longest path that is enumerated
MaxSegs == 3

Segments == {".", "..", "..hidden", "etc", "passwd", "sounds", "a.wav"}

RECURSIVE SegsUpTo(_)
SegsUpTo(n) ==
  IF n = 0 THEN {<<>>}
  ELSE LET shorter == SegsUpTo(n - 1)
       IN shorter \cup {Append(p, x) : p \in shorter, x \in Segments}

\* the paths a manifest may name, "../../etc/passwd", "/etc/passwd" and
\* "sounds/a.wav" among them
Paths ==
  {Path(abs, segs) : abs \in BOOLEAN, segs \in SegsUpTo(MaxSegs)}
  \cup {Path(FALSE, <<"..", "..", "etc", "passwd">>)}

CallSanitizeRelativePath ==
  /\ call = NoCall
  /\ \E p \in Paths :
       call' = [fn |-> "sanitizeRelativePath", arg |-> p,
                result |-> sanitizeRelativePath(p)]
  /\ UNCHANGED <<cfgFile, stateFile, pack, now, runs, prompts, chosen, last, installed, procs>>

\* label lists of a config file, with and without repeated and empty labels
LabelLists ==
  {<<>>, <<"a">>, <<"">>, <<"a", "b">>, <<"a", "a">>, <<"a", "">>, <<"", "a">>,
   <<"a", "a", "b">>, <<"a", "b", "c">>}

\* the lastPlayedLabel maps of a state the hook wrote: no key for the
\* category, or a label selected before, with or without a key for another
\* category
LastPlayedLabels(category) ==
  {EmptyMap, Store(EmptyMap, "task.complete", "b")}
  \cup {Store(m, category, l) :
          m \in {EmptyMap, Store(EmptyMap, "task.complete", "b")},
          l \in {"a", "b", "c"}}

CallPickLabel ==
  /\ call = NoCall
  /\ \E category \in {"session.start", "task.error"}, labels \in LabelLists :
     \E lastPlayedLabel \in LastPlayedLabels(category) :
     \E config \in {LoadConfig(WithLabels(EmptyConfigFile, List(labels)))} :
     \E state \in {[LoadState(NoStateFile).state
                       EXCEPT !.lastPlayedLabel = lastPlayedLabel]} :
     \E r \in Draws(Len(LabelCandidates(labels, LastLabel(category, state)))) :
       call' = [fn |-> "pickLabel",
                arg |-> [category |-> category, labels |-> labels, state |-> state],
                result |-> pickLabel(category, config, state, r)]
  /\ UNCHANGED <<cfgFile, stateFile, pack, now, runs, prompts, chosen, last, installed, procs>>

NextCalls ==
  \/ CallContainsPattern
  \/ CallSanitizeRelativePath
  \/ CallPickLabel

SpecCalls == InitCalls /\ [][NextCalls]_vars

----------------------------------------------------------------------------
(* The extension: its five commands on the files of .github/hooks, and the  *)
(* hook run by the host while the registration and the script are there.    *)
(* The file system works (mkdir, writeFile, copyFile and rm succeed), and   *)
(* the bundled script is part of the extension.                             *)

NothingInstalled ==
  [hooksFile |-> FALSE, script |-> FALSE, config |-> FALSE, edited |-> {}]

\* buildDefaultConfig
DefaultConfigFile ==
  [enabled |-> "true", bell |-> "false", desktopNotifications |-> "true",
   spamThreshold |-> DefaultSpamThreshold,
   spamWindowSeconds |-> DefaultSpamWindowSeconds,
   disabled |-> {},
   labels |-> [c \in Categories |-> List(DefaultLabels[c])],
   dangerousCommandPatterns |-> List(DefaultDangerousCommandPatterns)]

\* syncPack: the registry or the manifest cannot be fetched ("failed"), a
\* sound cannot be downloaded after the manifest is written ("partial"), or
\* every file arrives ("ok")
SyncOutcomes == {"failed", "partial", "ok"}

SyncedPack(dir, outcome) ==
  IF outcome = "failed" THEN dir
  ELSE IF outcome = "partial" THEN [dir EXCEPT !.openpeon = DefaultPack.openpeon]
  ELSE [dir EXCEPT !.openpeon = DefaultPack.openpeon,
                   !.files = @ \cup DefaultPack.files]

InstallsOverConfig(outcome) ==
  /\ installed' = AllInstalled
  /\ cfgFile' = DefaultConfigFile
  /\ pack' = SyncedPack(pack, outcome)

\* installHooks, lines 246-264: registration and script are written, the
\* config only when there is none, the default pack is synced
Installs(outcome) ==
  /\ installed' = AllInstalled
  /\ cfgFile' = IF installed.config THEN cfgFile ELSE DefaultConfigFile
  /\ pack' = SyncedPack(pack, outcome)

HookUntouched == UNCHANGED <<now, runs, prompts, chosen, last, call, procs>>

installHooks ==
  \E root \in BOOLEAN, outcome \in SyncOutcomes :
    IF ~root THEN UNCHANGED vars
    ELSE Installs(outcome) /\ UNCHANGED stateFile /\ HookUntouched

removeHooksAndConfig ==
  \E root \in BOOLEAN :
    IF ~root THEN UNCHANGED vars
    ELSE /\ installed' = NothingInstalled
         /\ cfgFile' = EmptyConfigFile
         /\ stateFile' = NoStateFile
         /\ UNCHANGED pack /\ HookUntouched

\* removeHooks, lines 284-293
removeHooks ==
  \E root \in BOOLEAN :
    IF ~root THEN UNCHANGED vars
    ELSE /\ installed' = [installed EXCEPT !.hooksFile = FALSE, !.script = FALSE,
                                            !.edited = {}]
         /\ stateFile' = NoStateFile
         /\ UNCHANGED <<cfgFile, pack>> /\ HookUntouched

\* openConfig: installs when there is no config, then opens it in an editor
openConfig ==
  \E root \in BOOLEAN, outcome \in SyncOutcomes :
    IF ~root \/ installed.config THEN UNCHANGED vars
    ELSE Installs(outcome) /\ UNCHANGED stateFile /\ HookUntouched

\* config.enabled = !(config.enabled === true)
Toggled(file) ==
  [file EXCEPT !.enabled = IF @ = "true" THEN "false" ELSE "true"]

\* toggleEnabled: installs when there is no config, then rewrites the config
\* with enabled flipped; a config that does not parse is rewritten from {}
toggleEnabled ==
  \E root \in BOOLEAN, outcome \in SyncOutcomes :
    IF ~root THEN UNCHANGED vars
    ELSE /\ IF installed.config
            THEN /\ cfgFile' = Toggled(cfgFile)
                 /\ UNCHANGED <<installed, pack>>
            ELSE /\ installed' = AllInstalled
                 /\ cfgFile' = Toggled(DefaultConfigFile)
                 /\ pack' = SyncedPack(pack, outcome)
         /\ UNCHANGED stateFile /\ HookUntouched

\* handleSyncDefaultPack: installs when the script is missing, else syncs
handleSyncDefaultPack ==
  \E root \in BOOLEAN, outcome \in SyncOutcomes :
    IF ~root THEN UNCHANGED vars
    ELSE /\ IF ~installed.script
            THEN Installs(outcome)
            ELSE pack' = SyncedPack(pack, outcome) /\ UNCHANGED <<installed, cfgFile>>
         /\ UNCHANGED stateFile /\ HookUntouched

ExtInputs ==
  {HookInput("UserPromptSubmit", "hookEventName", NoPayload, NoPayload),
   HookInput("PreToolUse", "hookEventName", Text(<<"ls", "-la">>), NoPayload)}

\* the host runs the registered command on an event; what it runs from a
\* registration or a script of other content is not this hook
HookRun ==
  /\ installed.hooksFile /\ installed.script /\ installed.edited = {}
  /\ runs < MaxRuns
  /\ \E hookInput \in ExtInputs :
       Main(hookInput, {Env("linux", TRUE, TRUE, TRUE)}, now)

\* a workspace before the first install, one that kept a config and packs
\* from an install that was removed, or one whose registration and script
\* were edited or come from another version of the extension
InitExt ==
  /\ \/ /\ installed = NothingInstalled
        /\ cfgFile = EmptyConfigFile
        /\ pack = NoPack
     \/ /\ installed \in {[AllInstalled EXCEPT !.edited = {"hooksFile", "script"}],
                          [AllInstalled EXCEPT !.script = FALSE,
                                               !.edited = {"hooksFile"}]}
        /\ cfgFile = [DefaultConfigFile EXCEPT !.bell = "true"]
        /\ pack = DefaultPack
     \/ /\ installed = [NothingInstalled EXCEPT !.config = TRUE]
        /\ cfgFile \in {EmptyConfigFile,
                        [DefaultConfigFile EXCEPT !.enabled = "truthy"],
                        [DefaultConfigFile EXCEPT !.bell = "true"]}
        /\ pack \in {NoPack, DefaultPack}
  /\ stateFile = NoStateFile
  /\ InitHistory

NextExt ==
  \/ installHooks
  \/ removeHooks
  \/ openConfig
  \/ toggleEnabled
  \/ handleSyncDefaultPack
  \/ HookRun

SpecExt == InitExt /\ [][NextExt]_vars

----------------------------------------------------------------------------
(* Hook processes side by side: each reads the state file when it starts    *)
(* (line 326) and writes it when it ends (line 412); nothing orders the      *)
(* reads and writes of two processes.                                        *)

\* UserPromptSubmit runs started in all
MaxRaceRuns == 3

InFlight == {p \in Procs : procs[p].phase = "read"}

RaceSnapshotFresh(p) == LoadState(stateFile)

\* the state a process works on is the one it read when it started
RaceSnapshot(p) == procs[p].loaded

\* lines 321-334: the process reads the config and the state file
RaceBegin(p) ==
  /\ procs[p].phase = "idle"
  /\ runs + Cardinality(InFlight) < MaxRaceRuns
  /\ procs' = [procs EXCEPT ![p] = [phase |-> "read", loaded |-> LoadState(stateFile)]]
  /\ UNCHANGED <<cfgFile, stateFile, pack, now, runs, prompts, chosen, last, call,
                 installed>>

\* lines 336-413: the process classifies the prompt at the time it reads the
\* clock, and writes the state it holds
RaceEnd(p) ==
  /\ procs[p].phase = "read"
  /\ \E t \in now..MaxTime :
       MainFrom(HookInput("UserPromptSubmit", "hookEventName", NoPayload, NoPayload),
                {Env("linux", TRUE, TRUE, TRUE)}, t, RaceSnapshot(p))
  /\ procs' = [procs EXCEPT ![p] = Idle]

InitRace ==
  /\ cfgFile = WithLabels(EmptyConfigFile, List(<<"a">>))
  /\ pack = NoPack
  /\ stateFile = NoStateFile
  /\ InitHistory
  /\ installed = AllInstalled

NextRace == \E p \in Procs : RaceBegin(p) \/ RaceEnd(p)

SpecRace == InitRace /\ [][NextRace]_vars

----------------------------------------------------------------------------
(* The claims.  Each is stated over the latest run (last), the files and   *)
(* the history.                                                            *)

\* the permission decision of the one record the latest run wrote
LastDecision == last.records[1].permissionDecision

\* the value is present, non-empty, and some pattern of the list is a valid
\* regular expression that matches it
SomePatternMatches(value, patterns) ==
  /\ ~Falsy(value)
  /\ \E k \in 1..Len(patterns) :
       patterns[k].valid /\ RegExpTest(patterns[k].toks, Joined(value))

\* the destructive-command list in force: the configured one when it is a
\* list, the built-in one otherwise
ListInForce ==
  IF cfgFile.dangerousCommandPatterns.kind = "list"
  THEN cfgFile.dangerousCommandPatterns.list
  ELSE DefaultDangerousCommandPatterns

\* C1: a PreToolUse run answers "ask" with category input.required exactly
\* when the tool input matches a pattern of the list in force, and "allow"
\* with no category otherwise.
C1_AskIffDestructive ==
  (last.ran /\ last.eventName = "PreToolUse") =>
    /\ Len(last.records) = 1
    /\ IF SomePatternMatches(last.tool_input, ListInForce)
       THEN LastDecision = "ask" /\ last.category = "input.required"
       ELSE LastDecision = "allow" /\ last.category = NoCategory

\* a PreToolUse run that asks because of a configured pattern the built-in
\* list does not have
C1_Witness ==
  /\ last.ran /\ last.eventName = "PreToolUse"
  /\ cfgFile.dangerousCommandPatterns.kind = "list"
  /\ ~SomePatternMatches(last.tool_input, DefaultDangerousCommandPatterns)
  /\ LastDecision = "ask"

\* C2: the record of a run carries a permission decision for a PreToolUse
\* event, whatever the config file and the state file hold, and none for any
\* other event.
C2_DecisionIffPreToolUse ==
  last.ran =>
    /\ Len(last.records) = 1
    /\ (last.eventName = "PreToolUse") <=> (LastDecision # "none")

\* C3: every run, whatever stdin, the files and the failures of its steps,
\* writes exactly one record, and the record has continue: true.
C3_OneRecord ==
  last.ran => (Len(last.records) = 1 /\ last.records[1].continue = TRUE)

\* a run that threw and a run whose state write failed
C3_Witness == last.ran /\ (last.threw \/ last.stateWrite = "failed")

\* the categories the dispatch gives an event
CategoriesOf(eventName) ==
  CASE eventName = "SessionStart" -> {"session.start"}
    [] eventName = "UserPromptSubmit" -> {"user.spam", "task.acknowledge"}
    [] eventName \in {"Stop", "SubagentStop"} -> {"task.complete"}
    [] eventName = "SubagentStart" -> {"task.acknowledge"}
    [] eventName = "PostToolUse" -> {"resource.limit", "task.error", NoCategory}
    [] eventName = "PreToolUse" -> {"input.required", NoCategory}
    [] OTHER -> {NoCategory}

\* C4: the category of a run is the one the dispatch on the event name
\* gives; an event name outside the known set gives no category and no
\* permission decision; no category outside the seven is produced.
C4_Dispatch ==
  last.ran =>
    /\ last.category \in CategoriesOf(last.eventName)
    /\ last.category \in Categories \cup {NoCategory}
    /\ last.eventName \notin KnownEvents =>
         (last.category = NoCategory /\ LastDecision = "none")

\* a run on an event name outside the known set
C4_Witness == last.ran /\ last.eventName = "Notification"

\* the prompts submitted within the last spamWindowSeconds, the current one
\* among them
PromptsInWindow ==
  {i \in 1..Len(prompts) : prompts[i] >= now - WindowSeconds(LoadConfig(cfgFile))}

\* C5: a UserPromptSubmit run is classified user.spam exactly when at least
\* spamThreshold prompts were submitted within the last spamWindowSeconds,
\* and task.acknowledge otherwise.
C5_SpamIffThreshold ==
  (last.ran /\ last.eventName = "UserPromptSubmit") =>
    last.category =
      IF Cardinality(PromptsInWindow) >= Threshold(LoadConfig(cfgFile))
      THEN "user.spam" ELSE "task.acknowledge"

\* the threshold reached by a prompt that lies exactly at the edge of the
\* window
C5_Witness ==
  /\ last.ran /\ last.eventName = "UserPromptSubmit"
  /\ last.category = "user.spam"
  /\ Len(prompts) = 2
  /\ prompts[1] = now - WindowSeconds(LoadConfig(cfgFile))

\* C6: when the label list of the category holds two distinct labels, the
\* label a run selects differs from the label selected last for the category.
C6_NoLabelRepeat ==
  ( /\ last.ran /\ last.effects.labelPicked /\ last.before.hasLabel
    /\ Cardinality(Range(LabelsOf(last.category, LoadConfig(cfgFile)))) >= 2 )
  => last.effects.label # last.before.label

\* the files the manifest in use offers for the category, sanitized
OfferedFiles(category) ==
  {e.file : e \in Range(SoundCandidates(getPackContext(pack).manifest.sounds[category]))}

\* C7: when the manifest offers two entries of different sanitized paths for
\* the category, the file a run selects differs from the file selected last
\* for the category; the selected file is recorded in lastPlayedFile.
C7_NoSoundRepeat ==
  (last.ran /\ last.effects.soundPicked) =>
    /\ stateFile.lpfKind = "map"
    /\ last.category \in DOMAIN stateFile.lastPlayedFile
    /\ stateFile.lastPlayedFile[last.category] = last.effects.file
    /\ (last.before.hasFile /\ Cardinality(OfferedFiles(last.category)) >= 2)
         => last.effects.file # last.before.file

\* a second selection among two files
C7_Witness ==
  /\ last.ran /\ last.effects.soundPicked /\ last.before.hasFile
  /\ Cardinality(OfferedFiles(last.category)) >= 2

\* the latest run triggered no playback, bell or notification
NoSideEffect ==
  /\ ~last.effects.audioSpawned /\ ~last.effects.playedAudio
  /\ ~last.effects.bell
  /\ ~last.effects.notified /\ ~last.effects.notificationSpawned

\* C8: with enabled false, the category's flag false, or no category, a run
\* triggers no playback, bell or notification; it still writes the state and
\* still returns the permission decision of a PreToolUse event.
C8_QuietWhenDisabled ==
  ( /\ last.ran
    /\ \/ cfgFile.enabled = "false"
       \/ last.category = NoCategory
       \/ last.category \in cfgFile.disabled )
  => /\ NoSideEffect
     /\ last.stateWrite = "ok" /\ stateFile.kind = "obj"
     /\ last.eventName = "PreToolUse" =>
          LastDecision = IF SomePatternMatches(last.tool_input, ListInForce)
                         THEN "ask" ELSE "allow"

\* a destructive PreToolUse with enabled false, and one whose category is
\* switched off
C8_Witness ==
  /\ last.ran /\ last.eventName = "PreToolUse" /\ LastDecision = "ask"
  /\ cfgFile.enabled = "false" \/ last.category \in cfgFile.disabled

\* C9: a PostToolUse run gives resource.limit when the response matches a
\* rate or quota pattern, also when it matches an error pattern too;
\* task.error when it matches an error pattern only; no category otherwise.
C9_RateLimitFirst ==
  (last.ran /\ last.eventName = "PostToolUse") =>
    last.category =
      IF SomePatternMatches(last.tool_response, RateLimitPatterns) THEN "resource.limit"
      ELSE IF SomePatternMatches(last.tool_response, ErrorPatterns) THEN "task.error"
      ELSE NoCategory

\* a response that matches a pattern of both lists
C9_Witness ==
  /\ last.ran /\ last.eventName = "PostToolUse"
  /\ SomePatternMatches(last.tool_response, RateLimitPatterns)
  /\ SomePatternMatches(last.tool_response, ErrorPatterns)
  /\ last.category = "resource.limit"

\* C10: every run writes the state at its end, with or without a pack, and
\* whether or not playback failed.
C10_StateWritten ==
  last.ran => (last.stateWrite = "ok" /\ stateFile.kind = "obj")

\* a run whose player could not be launched, and a run without a pack
C10_Witness ==
  /\ last.ran /\ last.stateWrite = "ok"
  /\ \/ last.effects.soundPicked /\ ~last.effects.playedAudio
     \/ last.active /\ ~last.effects.packFound

\* C11: loading the state repairs it: from a state file that is unreadable,
\* or an object whose fields are missing or of a wrong type, a run on a known
\* event does not fail, and the state it writes has a mapping in
\* lastPlayedLabel and lastPlayedFile and a sequence in promptTimestamps.
C11_ReadRepair ==
  [][ (stateFile.kind \in {"missing", "obj"} /\ last'.eventName \in KnownEvents)
      => /\ ~last'.threw
         /\ last'.stateWrite = "ok" =>
              /\ stateFile'.lplKind = "map"
              /\ stateFile'.lpfKind = "map"
              /\ stateFile'.ptsKind = "seq" ]_vars

\* the steps that follow playback in an active run were taken
RemainingStepsRan ==
  /\ last.effects.bell = (Truthy(cfgFile.bell, DefaultBell) /\ ~last.effects.playedAudio)
  /\ last.effects.notified =
       Truthy(cfgFile.desktopNotifications, DefaultDesktopNotifications)
  /\ last.stateWrite # "none"
  /\ Len(last.records) = 1

\* C12: two runs on the same event and payload, under the same pattern list,
\* write the same decision record, whether the player launch and the state
\* write of either run succeeded or failed; and a run whose playback or state
\* write failed still takes the remaining steps.
C12_DecisionIgnoresSideEffects ==
  [][ /\ (last.ran /\ last'.eventName = last.eventName
                   /\ last'.tool_input = last.tool_input)
         => last'.records = last.records
      /\ (last'.active /\ ~last'.effects.playedAudio) => RemainingStepsRan'
      /\ last'.stateWrite = "failed" => Len(last'.records) = 1 ]_vars

\* a destructive PreToolUse whose player launch and state write failed
C12_Witness ==
  /\ last.ran /\ last.eventName = "PreToolUse" /\ LastDecision = "ask"
  /\ last.effects.audioSpawned /\ ~last.effects.playedAudio
  /\ last.stateWrite = "failed"

\* C13: containsPattern is true exactly when the value is present and not
\* the empty text and some pattern of the list is a valid regular expression
\* that matches it: a malformed pattern matches nothing and does not keep the
\* patterns after it from being tried; an absent or empty value gives false.
C13_Matcher ==
  call.fn = "containsPattern" =>
    /\ call.result = SomePatternMatches(call.arg.value, call.arg.patterns)
    /\ (call.arg.value.kind = "absent" \/ call.arg.value = Text(<<>>))
         => call.result = FALSE
    /\ (\A k \in 1..Len(call.arg.patterns) : ~call.arg.patterns[k].valid)
         => call.result = FALSE

\* a match by a pattern that follows a malformed one
C13_Witness ==
  /\ call.fn = "containsPattern"
  /\ call.arg.patterns = <<BadRe, Re(<<"ls">>)>>
  /\ call.result = TRUE

\* C14: sanitizeRelativePath rejects every path that begins with a slash
\* ("/etc/passwd") and every path that normalizes to one with a leading ".."
\* segment ("../../etc/passwd"), and returns "sounds/a.wav" as it is.
C14_Sanitizer ==
  call.fn = "sanitizeRelativePath" =>
    /\ call.arg.abs => ~call.result.ok
    /\ (~call.arg.abs /\ Normalized(call.arg)[1] = "..") => ~call.result.ok
    /\ call.arg = Path(FALSE, <<"sounds", "a.wav">>)
         => call.result = [ok |-> TRUE, segs |-> <<"sounds", "a.wav">>]

\* the path names something below the pack directory: it has a segment, and
\* none of its segments is "." or ".."
StrictlyInside(segs) ==
  /\ segs # <<>>
  /\ \A i \in 1..Len(segs) : segs[i] \notin {".", ".."}

\* C15: every file path a run passes to playback resolves strictly inside the
\* pack directory, whatever the manifest holds.
C15_PlayedInsidePack ==
  (last.ran /\ last.effects.soundPicked) => StrictlyInside(last.effects.file)

\* C16: Remove Copilot Hooks removes the registration file, the script and
\* the state file and leaves the config file and the packs directory as they
\* are; no other command and no run of the hook deletes the state file.
C16_RemoveHooks ==
  [][ /\ (removeHooks /\ (installed.hooksFile \/ installed.script
                           \/ stateFile.kind # "missing"))
         => /\ ~installed'.hooksFile /\ ~installed'.script
            /\ stateFile'.kind = "missing"
            /\ installed'.config = installed.config
            /\ cfgFile' = cfgFile
            /\ pack' = pack
      /\ (stateFile.kind # "missing" /\ stateFile'.kind = "missing")
         => removeHooks ]_vars

\* the hooks were removed after a run had written the state, and the config
\* and the pack are still there
C16_Witness ==
  /\ last.ran /\ stateFile.kind = "missing"
  /\ ~installed.hooksFile /\ ~installed.script
  /\ installed.config /\ pack # NoPack

\* C17: nothing excludes two runs from each other: the state a run leaves
\* on disk is the one it read when it started with its own prompt added,
\* whatever another run wrote in between.
C17_LastWriterWins ==
  [][ \A p \in Procs :
        (procs[p].phase = "read" /\ procs'[p].phase = "idle")
        => stateFile'.promptTimestamps =
             Append(Retained(procs[p].loaded.state.promptTimestamps, now',
                             WindowSeconds(LoadConfig(cfgFile))), now') ]_vars

\* a prompt classified task.acknowledge although spamThreshold prompts lie
\* within the window, one of them lost from the state file
C17_Witness ==
  /\ last.ran /\ last.eventName = "UserPromptSubmit"
  /\ InFlight = {}
  /\ last.category = "task.acknowledge"
  /\ Cardinality(PromptsInWindow) >= Threshold(LoadConfig(cfgFile))
  /\ Len(stateFile.promptTimestamps) < Cardinality(PromptsInWindow)

\* C18: after a UserPromptSubmit run at time now, the promptTimestamps of the
\* state file hold now, and of the earlier prompts exactly those at or after
\* now - spamWindowSeconds: a stamp at the cutoff stays, an older one goes.
C18_WindowInclusive ==
  (last.ran /\ last.eventName = "UserPromptSubmit") =>
    /\ stateFile.ptsKind = "seq"
    /\ now \in Range(stateFile.promptTimestamps)
    /\ \A x \in Range(stateFile.promptTimestamps) :
         x >= now - WindowSeconds(LoadConfig(cfgFile))
    /\ \A i \in 1..Len(prompts) :
         prompts[i] \in Range(stateFile.promptTimestamps)
           <=> prompts[i] >= now - WindowSeconds(LoadConfig(cfgFile))
    /\ Len(stateFile.promptTimestamps) = Cardinality(PromptsInWindow)

\* an earlier prompt exactly at the cutoff, kept in the state file
C18_Witness ==
  /\ last.ran /\ last.eventName = "UserPromptSubmit"
  /\ Len(prompts) = 2
  /\ prompts[1] < now
  /\ prompts[1] = now - WindowSeconds(LoadConfig(cfgFile))
  /\ stateFile.promptTimestamps = prompts

\* the manifest files of the pack that exist and parse, openpeon.json first
Parseable ==
  FilterSeq(<<pack.openpeon, pack.manifest>>,
            {f \in {pack.openpeon, pack.manifest} : f.kind = "json"})

\* the sanitized files a manifest offers for a category
FilesOf(manifest, category) ==
  {e.file : e \in Range(SoundCandidates(manifest.sounds[category]))}

\* C19: an active run uses openpeon.json when it exists and parses, else
\* manifest.json when that exists and parses; when neither does there is no
\* pack: the run launches no audio, rings the bell if the bell is on, sends
\* the notification if notifications are on, and does not fail.
C19_ManifestPriority ==
  (last.ran /\ last.active) =>
    /\ last.effects.packFound <=> (Parseable # <<>>)
    /\ last.effects.soundPicked =>
         /\ Parseable # <<>>
         /\ last.effects.file \in FilesOf(Parseable[1], last.category)
    /\ (Parseable # <<>> /\ FilesOf(Parseable[1], last.category) # {})
         => last.effects.soundPicked
    /\ Parseable = <<>> =>
         /\ ~last.threw /\ Len(last.records) = 1
         /\ ~last.effects.soundPicked /\ ~last.effects.audioSpawned
         /\ last.effects.bell = Truthy(cfgFile.bell, DefaultBell)
         /\ last.effects.notified =
              Truthy(cfgFile.desktopNotifications, DefaultDesktopNotifications)

\* a run that takes its sound from manifest.json because openpeon.json does
\* not parse
C19_Witness ==
  /\ last.ran /\ last.active
  /\ pack.openpeon.kind = "garbage" /\ pack.manifest.kind = "json"
  /\ last.effects.soundPicked

\* C20: in an active run the bell is rung exactly when the bell is on and no
\* audio playback was launched with success: without a pack, without a
\* selectable sound, with a sound file that is missing, or without a player,
\* the bell is rung if it is on; it is not rung when playback was launched or
\* when the bell is off.
C20_BellFallback ==
  (last.ran /\ last.active) =>
    /\ last.effects.bell
         <=> (Truthy(cfgFile.bell, DefaultBell) /\ ~last.effects.playedAudio)
    /\ ( \/ ~last.effects.packFound
         \/ ~last.effects.soundPicked
         \/ ~SoundFileExists(pack, last.effects.file)
         \/ ~last.effects.audioSpawned )
       => /\ ~last.effects.playedAudio
          /\ last.effects.bell = Truthy(cfgFile.bell, DefaultBell)

\* the bell rung for a sound whose file is missing
C20_Witness ==
  /\ last.ran /\ last.active /\ last.effects.bell
  /\ last.effects.soundPicked
  /\ ~SoundFileExists(pack, last.effects.file)

\* the labels the manifest in use gives the file a run selected
LabelsOfSelected ==
  {e.label : e \in {x \in Range(SoundCandidates(Parseable[1].sounds[last.category])) :
                      x.file = last.effects.file}}

\* the fallback label is a label of the category's list, or the category name
\* when the list is empty
IsFallbackLabel(label) ==
  IF LabelsOf(last.category, LoadConfig(cfgFile)) = <<>> THEN label = last.category
  ELSE label \in Range(LabelsOf(last.category, LoadConfig(cfgFile)))

\* C21: an active run with desktop notifications on triggers exactly one
\* notification, titled "Peon Ping"; its message is the label of the selected
\* sound when a sound was selected and has a label, else the fallback label
\* (a label of the category's list, the category name when the list is
\* empty), followed after one space by the extra message when there is one.
\* A run that is not active, or with notifications off, triggers none.
C21_Notification ==
  last.ran =>
    IF last.active /\ Truthy(cfgFile.desktopNotifications, DefaultDesktopNotifications)
    THEN /\ Len(last.effects.notifications) = 1
         /\ last.effects.notifications[1].title = "Peon Ping"
         /\ \E text \in {last.effects.notifications[1].message[1]} :
              /\ IF last.effects.soundPicked /\ LabelsOfSelected # {""}
                 THEN text \in LabelsOfSelected \ {""}
                 ELSE IsFallbackLabel(text)
              /\ last.effects.notifications[1].message =
                   IF last.category = "input.required"
                   THEN <<text, "Potentially destructive tool input detected.">>
                   ELSE <<text>>
    ELSE last.effects.notifications = <<>>

\* a destructive PreToolUse whose notification carries the label of the
\* selected sound and the extra message
C21_Witness ==
  /\ last.ran /\ last.eventName = "PreToolUse"
  /\ last.effects.soundPicked /\ last.effects.soundLabel = "Work, work."
  /\ last.effects.notifications =
       << [title |-> "Peon Ping",
           message |-> <<"Work, work.", "Potentially destructive tool input detected.">>] >>

\* C22: on a non-empty label list pickLabel returns a label of the list: the
\* one label of a one-element list, and the first label of the list when
\* every label equals the one selected last; the label it returns is the one
\* it records in lastPlayedLabel under the category, and the keys of the
\* other categories keep their labels.
C22_LabelSelector ==
  (call.fn = "pickLabel" /\ call.arg.labels # <<>>) =>
    /\ ~call.result.threw
    /\ call.result.label \in Range(call.arg.labels)
    /\ Len(call.arg.labels) = 1 => call.result.label = call.arg.labels[1]
    /\ Range(call.arg.labels) = {LastLabel(call.arg.category, call.arg.state)}
         => call.result.label = call.arg.labels[1]
    /\ call.arg.category \in DOMAIN call.result.state.lastPlayedLabel
    /\ call.result.state.lastPlayedLabel[call.arg.category] = call.result.label
    /\ \A c \in DOMAIN call.arg.state.lastPlayedLabel \ {call.arg.category} :
         /\ c \in DOMAIN call.result.state.lastPlayedLabel
         /\ call.result.state.lastPlayedLabel[c] = call.arg.state.lastPlayedLabel[c]

\* a list of two equal labels, both excluded as the label selected last
C22_Witness ==
  /\ call.fn = "pickLabel"
  /\ call.arg.labels = <<"a", "a">>
  /\ LastLabel(call.arg.category, call.arg.state) = "a"
  /\ call.result.label = "a"

\* whether the hook takes the config file as enabled (lines 322 and 384)
HookEnabled(file) == LoadConfig(file).enabled

\* C23: Toggle Enabled on an existing config file inverts the enabled state
\* the hook acts on, a missing enabled key counting as enabled; a second
\* toggle restores the state before the first; every other key of the file
\* keeps its value.
C23_ToggleInverts ==
  [][ (toggleEnabled /\ installed.config)
      => /\ HookEnabled(cfgFile') = ~HookEnabled(cfgFile)
         /\ HookEnabled(Toggled(cfgFile')) = HookEnabled(cfgFile)
         /\ [cfgFile' EXCEPT !.enabled = cfgFile.enabled] = cfgFile ]_vars

\* C24: over every sequence of the five commands and hook runs, a config
\* file that exists is never deleted and never replaced: only Toggle Enabled
\* changes it, and only its enabled key; a config file is created with the
\* defaults only when there was none; and every install leaves the
\* registration and the script with the content the extension writes.
C24_ConfigKept ==
  [][ /\ installed.config =>
            /\ installed'.config
            /\ cfgFile' # cfgFile => (toggleEnabled /\ cfgFile' = Toggled(cfgFile))
      /\ (~installed.config /\ installed'.config) =>
            cfgFile' \in {DefaultConfigFile, Toggled(DefaultConfigFile)}
      /\ installHooks =>
            /\ installed'.hooksFile /\ installed'.script
            /\ installed'.edited = {} ]_vars

\* the hooks were removed after a run and installed again over the config
\* the user had edited, and over a registration and a script of other content
C24_Witness ==
  /\ last.ran /\ stateFile.kind = "missing"
  /\ installed = AllInstalled
  /\ cfgFile = [DefaultConfigFile EXCEPT !.bell = "true"]

\* the key has the same value in both maps, or is in neither
SameAt(before, after, key) ==
  /\ key \in DOMAIN before <=> key \in DOMAIN after
  /\ key \in DOMAIN before => after[key] = before[key]

====
